---- MODULE Spec2Model ----
(***************************************************************************)
(* Client-side telemetry / replay engine of the Smart Warehouse dashboard  *)
(* (pages/OperationsDashboard.tsx, api.ts) and its canvas renderer         *)
(* (components/WarehouseCanvas.tsx).                                       *)
(*                                                                         *)
(* The component is a React function component.  Its useState cells are    *)
(* the variables scenariosLoaded .. cursor, its useRef cells the variables *)
(* socketRef .. reconnectTimerRef.  JavaScript runs one callback at a      *)
(* time, and React commits the state updates a callback queued and runs    *)
(* the effects whose dependencies changed before the next callback is      *)
(* handled; so every action below is one callback (a user event, a socket  *)
(* event, a timer, a resolved request) followed by Render, the commit and  *)
(* the three effects of the component.                                     *)
(*                                                                         *)
(* The environment (REST service, push stream, browser timers) is modelled *)
(* by srvStage, stream, batches, sockets, timers, pending, refreshing.  The *)
(* variable bound never changes: it holds the limits of the environment    *)
(* that a specification explores (how many ticks, sockets, requests).      *)
(***************************************************************************)
EXTENDS Integers, Sequences, FiniteSets, Bags, TLC

\* ------------------------------------------------------------------ bounds
\* The buffer cap.  The source sets 900 (OperationsDashboard.tsx:32); the
\* model keeps the name and scales the value so TLC can fill the buffer.
TICK_HISTORY_LIMIT == 2
\* Ticks the server produces per run.
MaxTicks == 3
\* Sockets ever created by the client.
MaxSockets == 2
\* Run-selection requests in flight at once.
MaxPending == 1
\* refreshRuns requests in flight at once (further ones merge into the last).
MaxRefresh == 1
\* The same limits for the specification that re-selects a run repeatedly.
ReselectTicks == 1
ReselectSockets == 3
\* The same limits for the specification of transport failures.
ReconnectTicks == 1
ReconnectSockets == 3
\* The same limits for the specification that switches between two runs.
SwitchSockets == 3
\* The same limits for the specification of repeated failures of one stream.
BackoffTicks == 1
BackoffSockets == 7
\* The same limits for the specification of the message stream, and the
\* malformed messages a stream carries.
StreamTicks == 3
StreamSockets == 2
MaxMalformed == 1
\* The same limits for the specification that hands the stream over from one
\* run to another, and the events its ticks carry.
HandoverTicks == 1
HandoverSockets == 3
HandoverEvents == 1
\* The same limits for the specification of overlapping run selections.
StalePending == 2
StaleSockets == 2
\* The same limits for the specification of the auto-select effect.
AutoSelectSockets == 2
\* The timeline cap.  The source sets 200 (OperationsDashboard.tsx:33); scaled
\* like the buffer cap.
TIMELINE_LIMIT == 3
\* Events a tick carries in recent_events, at most.
MaxEvents == 2
\* The events the timeline view shows.  The source takes 40
\* (OperationsDashboard.tsx:69); scaled below the timeline cap.
TIMELINE_VIEW == 2
MaxPath == 1
AutoTickTicks == 1
AutoTickSockets == 1
AutoTickPending == 2

\* ------------------------------------------------------------- vocabulary
Runs == {"A", "B"}
NoRun == "none"
Null == "null"
Absent == "absent"
LiveStages == {"WARMING_UP", "RUNNING"}
TerminalStages == {"COMPLETED", "FAILED", "CANCELLED"}
Stages == {"QUEUED"} \cup LiveStages \cup TerminalStages
Scenarios == {"S1", "S2"}
NoScenario == "none"
\* created_at of the runs the server stores
CreatedAt(r) == IF r = "A" THEN 1 ELSE 2
NoActiveRun == [id |-> NoRun, stage |-> Null, hasState |-> FALSE]

VARIABLES
  \* useState cells
  scenariosLoaded, runs, selectedScenario, activeRun, tickHistory, mode, cursor,
  timeline, toast,
  \* useRef cells
  socketRef, modeRef, activeRunIdRef, runStageRef, reconnectTimerRef,
  \* environment
  srvStage, stream, batches, sockets, timers, pending, refreshing,
  \* the component is mounted (false after the mount effect's cleanup ran)
  mounted,
  \* limits of the explored environment (constant)
  bound,
  \* history: the callback the last step ran, the ticks put into the Tick
  \* Buffer since it was last replaced, and the caller of the handleRunSelect
  \* that set the active run
  lastEvent, putLog, chosenBy,
  \* WarehouseCanvas: the props of its last render and what its draw effect
  \* left on the canvas
  canvasProps, canvasFrame,
  \* the useMemo cell of activeTick, evaluated on inputs of its own: the
  \* dependencies of its last evaluation and the value it returned
  activeTickMemo

vars == <<scenariosLoaded, runs, selectedScenario, activeRun, tickHistory, mode,
          cursor, socketRef, modeRef, activeRunIdRef, runStageRef,
          reconnectTimerRef, srvStage, stream, sockets, timers, pending,
          refreshing, bound, lastEvent, putLog, timeline, toast, batches,
          mounted, chosenBy, canvasProps, canvasFrame, activeTickMemo>>

\* the variables of OperationsDashboard and its environment
dashVars == <<scenariosLoaded, runs, selectedScenario, activeRun, tickHistory,
              mode, cursor, socketRef, modeRef, activeRunIdRef, runStageRef,
              reconnectTimerRef, srvStage, stream, sockets, timers, pending,
              refreshing, bound, lastEvent, putLog, timeline, toast, batches,
              mounted, chosenBy>>
canvasVars == <<canvasProps, canvasFrame>>
\* what the callbacks of OperationsDashboard leave alone
viewVars == <<canvasVars, activeTickMemo>>

envVars == <<srvStage, stream, batches, bound>>
connVars == <<socketRef, reconnectTimerRef, sockets, timers>>

\* scenario_id of the runs the server stores
ScenarioOf(r) == bound.scenarioOf[r]

NoTimer == [sock |-> 0, by |-> "none", run |-> NoRun, attempt |-> 0, delay |-> 0]
\* toast === null, and the messages the component raises
NoToast == "none"
ToastInterrupted == "Run stream interrupted, reconnecting..."
ToastLost == "Run stream lost connection"
ToastLoadFailed == "Unable to load run"

\* ---------------------------------------------------------- pure helpers
IsTerminal(stage) == stage \in TerminalStages

Tick(r, n, stage) == [run |-> r, seq |-> n, stage |-> stage]
\* activeTick === null
NoTick == [run |-> NoRun, seq |-> 0, stage |-> Null]

\* mutants of AppendTick: no eviction; eviction of the newest tick
AppendTickNoEvict(previous, tick) == Append(previous, tick)
AppendTickDropNewest(previous, tick) ==
  IF Len(previous) >= TICK_HISTORY_LIMIT THEN previous ELSE Append(previous, tick)

\* setTickHistory's updater: append at the tail, drop the head beyond the cap
AppendTick(previous, tick) ==
  LET next == Append(previous, tick)
  IN IF Len(next) > TICK_HISTORY_LIMIT THEN Tail(next) ELSE next

\* mutant of TickCursor: the cursor follows the tail in either mode
TickCursorAlways(ref, next, cur) == Len(next) - 1

\* the setCursor call inside the updater: only modeRef "live" follows the tail
TickCursor(ref, next, cur) == IF ref = "live" THEN Len(next) - 1 ELSE cur

\* mutants of ModeEffectCursor: the effect never snaps the cursor; the effect
\* snaps to the length instead of the last index; the effect rewinds the
\* cursor when replay starts
ModeEffectCursorNone(md, th, cur) == cur
ModeEffectCursorLength(md, th, cur) ==
  IF md = "live" /\ Len(th) > 0 THEN Len(th) ELSE cur
ModeEffectCursorRewind(md, th, cur) ==
  IF md = "live" /\ Len(th) > 0 THEN Len(th) - 1 ELSE 0

\* mode effect: runs when mode or tickHistory.length changed
ModeEffectCursor(md, th, cur) ==
  IF md = "live" /\ Len(th) > 0 THEN Len(th) - 1 ELSE cur

\* activeTick (useMemo): x ?? y takes y when the index is outside the array
ActiveTickOf(th, md, cur) ==
  IF Len(th) = 0 THEN NoTick
  ELSE IF md = "replay"
       THEN IF cur >= 0 /\ cur <= Len(th) - 1 THEN th[cur + 1] ELSE th[Len(th)]
       ELSE th[Len(th)]

activeTick == ActiveTickOf(tickHistory, mode, cursor)

\* useMemo(() => ..., [cursor, mode, tickHistory]) before its first evaluation
NoMemo == [tickHistory |-> <<>>, mode |-> "live", cursor |-> 0, value |-> NoTick]
\* one evaluation of the memo on the dependencies th, md and cur
ActiveTickMemo(th, md, cur) ==
  /\ activeTickMemo' = [tickHistory |-> th, mode |-> md, cursor |-> cur,
                        value |-> ActiveTickOf(th, md, cur)]
  /\ UNCHANGED <<dashVars, canvasVars>>
\* the inputs of the memo: Tick Buffers of run A (ticks in ascending order, at
\* most TICK_HISTORY_LIMIT of them) and cursors on either side of the
\* buffer's positions
MemoTicks == {Tick("A", n, stage) : n \in 1 .. MaxTicks, stage \in LiveStages}
MemoHistories ==
  {th \in UNION {[1 .. n -> MemoTicks] : n \in 0 .. TICK_HISTORY_LIMIT} :
     \A i \in 1 .. Len(th) - 1 : th[i].seq < th[i + 1].seq}
MemoCursors == 0 - TICK_HISTORY_LIMIT .. 2 * TICK_HISTORY_LIMIT

\* RunPlaybackControls: the Replay button and the slider
DisableReplay(historyLength) == historyLength <= 1
MaxIndex(historyLength) == IF historyLength - 1 > 0 THEN historyLength - 1 ELSE 0
\* mutant of SliderDisabled: the slider ignores the mode
SliderDisabledIgnoresMode(md, historyLength) == DisableReplay(historyLength)
SliderDisabled(md, historyLength) == md # "replay" \/ DisableReplay(historyLength)
\* mutant of SliderValue: the raw value is passed on unclamped
SliderValueRaw(raw, historyLength) == raw
\* <input type="range" min=0 max=maxIndex>: the browser keeps the value in range
SliderValue(raw, historyLength) ==
  IF raw < 0 THEN 0
  ELSE IF raw > MaxIndex(historyLength) THEN MaxIndex(historyLength) ELSE raw

\* seed tick of handleRunSelect: one tick when the detail carries a state
SeedTick(detail) ==
  IF detail.hasState THEN <<Tick(detail.id, 0, detail.stage)>> ELSE <<>>
SelectMode(detail) ==
  IF detail.stage \in LiveStages THEN "live"
  ELSE IF Len(SeedTick(detail)) > 0 THEN "replay" ELSE "live"
SelectCursor(detail) ==
  IF Len(SeedTick(detail)) > 0 THEN Len(SeedTick(detail)) - 1 ELSE 0

\* mutant of Preferred: the newest run of the scenario, live or not
PreferredNewest(rs, sel) ==
  LET m == {r \in Runs : rs[r] # Absent /\ ScenarioOf(r) = sel}
  IN IF sel = NoScenario \/ m = {} THEN NoRun
     ELSE CHOOSE r \in m : \A q \in m : CreatedAt(q) <= CreatedAt(r)

\* auto-select effect: the preferred run of the selected scenario, or NoRun
MatchingRuns(rs, sel) == {r \in Runs : rs[r] # Absent /\ ScenarioOf(r) = sel}
Newest(S) == CHOOSE r \in S : \A q \in S : CreatedAt(q) <= CreatedAt(r)
Preferred(rs, sel) ==
  LET m == MatchingRuns(rs, sel)
      live == {r \in m : rs[r] \in LiveStages}
  IN IF sel = NoScenario \/ m = {} THEN NoRun
     ELSE IF live # {} THEN Newest(live) ELSE Newest(m)

Request(r, scl) ==
  [run |-> r, scen |-> scl, resp |-> "none", stage |-> Null, hasState |-> FALSE,
   seed |-> 0, gen |-> 0, by |-> "operator"]

\* the handleRunSelect calls that await their requests, in call order: gen 0
\* is the oldest call
Enqueue(pend, r, scl, by) ==
  pend (+) SetToBag({[Request(r, scl) EXCEPT !.gen = BagCardinality(pend),
                                             !.by = by]})
\* a call continues after its await (or fails): the later calls move up
Dequeue(pend, q) ==
  SetToBag({[p EXCEPT !.gen = IF @ > q.gen THEN @ - 1 ELSE @] :
              p \in BagToSet(pend (-) SetToBag({q}))})

\* the events of a tick's recent_events (the seed tick carries none)
Event(r, k, i) == [run |-> r, tick |-> k, i |-> i]
RecentEvents(tick) ==
  IF tick.seq = 0 THEN <<>>
  ELSE [i \in 1 .. batches[tick.run][tick.seq] |-> Event(tick.run, tick.seq, i)]

\* mutant of MergeTimeline: eviction from the tail
MergeTimelineKeepHead(previous, events) ==
  LET merged == previous \o events
  IN IF Len(merged) > TIMELINE_LIMIT THEN SubSeq(merged, 1, TIMELINE_LIMIT)
     ELSE merged

\* setTimeline's updater in handleTick, called when the batch is non-empty
MergeTimeline(previous, events) ==
  LET merged == previous \o events
  IN IF Len(events) = 0 THEN previous
     ELSE IF Len(merged) > TIMELINE_LIMIT
          THEN SubSeq(merged, Len(merged) - TIMELINE_LIMIT + 1, Len(merged))
          ELSE merged

\* fetchRunTimeline: the events of the first k ticks of run r, oldest first
RECURSIVE RunTimeline(_, _)
RunTimeline(r, k) ==
  IF k = 0 THEN <<>> ELSE RunTimeline(r, k - 1) \o RecentEvents(Tick(r, k, Null))

\* timelineSeed.slice(-TIMELINE_LIMIT)
TimelineSeed(seed) ==
  IF Len(seed) > TIMELINE_LIMIT
  THEN SubSeq(seed, Len(seed) - TIMELINE_LIMIT + 1, Len(seed)) ELSE seed

\* Array.prototype.reverse
Reverse(seq) == [i \in 1 .. Len(seq) |-> seq[Len(seq) - i + 1]]
\* Array.prototype.slice(-n): a new array of the last n elements
SliceLast(seq, n) ==
  IF Len(seq) > n THEN SubSeq(seq, Len(seq) - n + 1, Len(seq)) ELSE seq

\* mutant of RecentTimelineMemo: reverse() is applied to the stored array
\* itself, which it reverses in place, before the copy is taken
RecentTimelineMemoInPlace(tl) ==
  [stored |-> Reverse(tl), view |-> SubSeq(Reverse(tl), 1, Len(SliceLast(tl, TIMELINE_VIEW)))]

\* recentTimeline (useMemo): slice(-40) copies the newest events, reverse()
\* reverses that copy in place; stored is the timeline array afterwards
RecentTimelineMemo(tl) ==
  LET copy == SliceLast(tl, TIMELINE_VIEW)
  IN [stored |-> tl, view |-> Reverse(copy)]

\* ------------------------------------------------------- derived snapshot
\* Where a rendered value comes from: a buffered tick, the active run record,
\* the static configuration of a scenario, or nowhere.
FromTick(tick) == [from |-> "tick", run |-> tick.run, seq |-> tick.seq]
FromRun(run) == [from |-> "run", run |-> run.id, seq |-> 0]
FromScenario(sc) == [from |-> "scenario", run |-> sc, seq |-> 0]
Nothing == [from |-> "nothing", run |-> NoRun, seq |-> 0]

\* a tick object carries state, metrics and heatmap unless it is the object
\* without fields that handleTick accepted; the run record carries metrics
\* and heatmap unless such an object overwrote them
TickHasFields(tick) == tick # NoTick /\ tick.stage # Null
RunHasFields(run) == run # NoActiveRun /\ run.stage # Null

\* mutant of CurrentStateOf: the run record is consulted before the tick
CurrentStateRunFirst(tick, run) ==
  IF run # NoActiveRun /\ run.hasState THEN FromRun(run)
  ELSE IF TickHasFields(tick) THEN FromTick(tick)
  ELSE Nothing

\* activeTick?.state ?? activeRun?.state ?? null
CurrentStateOf(tick, run) ==
  IF TickHasFields(tick) THEN FromTick(tick)
  ELSE IF run # NoActiveRun /\ run.hasState THEN FromRun(run)
  ELSE Nothing
\* activeTick?.metrics ?? activeRun?.metrics ?? null
CurrentMetricsOf(tick, run) ==
  IF TickHasFields(tick) THEN FromTick(tick)
  ELSE IF RunHasFields(run) THEN FromRun(run)
  ELSE Nothing
\* activeTick?.heatmap ?? activeRun?.heatmap ?? {}
CurrentHeatmapOf(tick, run) ==
  IF TickHasFields(tick) THEN FromTick(tick)
  ELSE IF RunHasFields(run) THEN FromRun(run)
  ELSE Nothing

currentState == CurrentStateOf(activeTick, activeRun)
currentMetrics == CurrentMetricsOf(activeTick, activeRun)
currentHeatmap == CurrentHeatmapOf(activeTick, activeRun)

\* activeScenario (useMemo): the scenario of the active run when the list
\* holds it, else the selected scenario
activeScenario ==
  IF activeRun # NoActiveRun /\ scenariosLoaded THEN ScenarioOf(activeRun.id)
  ELSE selectedScenario
\* fallbackLayout (useMemo)
fallbackLayout ==
  IF activeScenario = NoScenario THEN Nothing ELSE FromScenario(activeScenario)

\* the props of WarehouseCanvas and MetricsPanel; an empty list of packages,
\* robots and reservations is Nothing
Snapshot ==
  [layout |-> IF currentState # Nothing THEN currentState ELSE fallbackLayout,
   entities |-> currentState,
   heatmap |-> currentHeatmap,
   metrics |-> currentMetrics]

\* -------------------------------------------------------- WarehouseCanvas
\* An identifier is the sequence of the UTF-16 code units of the string.
\* "AGV-1", "AGV-007" and "GydZG_": their hashes are 62228116, -328322086 and
\* -2147483648
IdAgv1 == <<65, 71, 86, 45, 49>>
IdAgv007 == <<65, 71, 86, 45, 48, 48, 55>>
IdGydZG == <<71, 121, 100, 90, 71, 95>>
RobotIds == {IdAgv1, IdAgv007, IdGydZG}

ROBOT_COLORS ==
  <<"#2563eb", "#dc2626", "#16a34a", "#f97316", "#8b5cf6", "#0ea5e9", "#d97706">>

\* A 32-bit integer is held as the two 16-bit halves of its two's complement
\* (hi >= 32768: negative), so that no intermediate value leaves the range of
\* the model checker's integers.
Int32Zero == [hi |-> 0, lo |-> 0]
\* hash = (hash << 5) - hash + code; hash |= 0: the low 32 bits of
\* 31 * hash + code
HashStep(hash, code) ==
  LET lo == hash.lo * 31 + code
      hi == hash.hi * 31 + lo \div 65536
  IN [hi |-> hi % 65536, lo |-> lo % 65536]
RECURSIVE HashFrom(_, _, _)
HashFrom(hash, value, i) ==
  IF i > Len(value) THEN hash ELSE HashFrom(HashStep(hash, value[i]), value, i + 1)
hashString(value) == HashFrom(Int32Zero, value, 1)

IsNegative(hash) == hash.hi >= 32768
\* Math.abs(hash) as halves: a double holds 2^31 exactly, so the magnitude
\* of -2^31 is [hi |-> 32768, lo |-> 0]
MathAbs(hash) ==
  IF IsNegative(hash)
  THEN [hi |-> 65535 - hash.hi + (IF hash.lo = 0 THEN 1 ELSE 0),
        lo |-> (65536 - hash.lo) % 65536]
  ELSE hash
\* magnitude % m, for a non-negative magnitude
Remainder(magnitude, m) == ((magnitude.hi % m) * (65536 % m) + magnitude.lo) % m

\* mutant of RobotColorIndex: the absolute value is taken in 32-bit integers,
\* where -2^31 has no positive counterpart, and % keeps the dividend's sign
RobotColorIndexInt32(robotId) ==
  LET h == hashString(robotId)
  IN IF h = [hi |-> 32768, lo |-> 0]
     THEN 0 - Remainder(h, Len(ROBOT_COLORS))
     ELSE Remainder(MathAbs(h), Len(ROBOT_COLORS))

\* Math.abs(hashString(robotId)) % ROBOT_COLORS.length
RobotColorIndex(robotId) == Remainder(MathAbs(hashString(robotId)), Len(ROBOT_COLORS))
\* ROBOT_COLORS[index]
robotColor(robotId) ==
  LET index == RobotColorIndex(robotId)
  IN IF index \in 0 .. Len(ROBOT_COLORS) - 1 THEN ROBOT_COLORS[index + 1]
     ELSE "undefined"

\* heatmap keys "x:y"; "x" stands for a key Number.parseInt cannot read
HeatKeys == {"0:0", "1:0", "0:1", "x"}
ValidKey(key) == key # "x"
\* visit counts of a cell
Counts == {0, 1, 5, 10}
\* the heatmap prop: undefined, or a record of counts
NoHeatmap == [defined |-> FALSE, counts |-> <<>>]
\* the heatmaps that differ from one in a single cell, the empty heatmap of
\* an undefined one, and undefined
NearHeatmaps(heatmap) ==
  {NoHeatmap, [defined |-> TRUE, counts |-> heatmap.counts]}
  \cup {[defined |-> TRUE, counts |-> (k :> c) @@ heatmap.counts] :
          k \in HeatKeys, c \in Counts}
  \cup {[defined |-> TRUE,
         counts |-> [x \in DOMAIN heatmap.counts \ {k} |-> heatmap.counts[x]]] :
          k \in DOMAIN heatmap.counts}
\* the robots prop: up to two robots, in any order
\* RobotTelemetry: the id of a robot and the number of steps of its path
Robots == {[robot_id |-> id, path |-> n] : id \in RobotIds, n \in 0 .. MaxPath}
RobotLists ==
  {<<>>} \cup {<<a>> : a \in Robots}
         \cup {pair \in Robots \X Robots : pair[1].robot_id # pair[2].robot_id}

\* Math.max(...values): -Infinity without values (here: below every count)
MathMax(values) ==
  IF values = {} THEN 0 - 1 ELSE CHOOSE v \in values : \A w \in values : w <= v

\* what the heatmap layer leaves: the filled cells with their globalAlpha as
\* the fraction num/den, and whether the call threw
NoFill == [fills |-> {}, threw |-> FALSE]
\* Object.entries throws a TypeError for undefined
ObjectEntries(heatmap) ==
  [threw |-> ~heatmap.defined,
   entries |-> {<<k, heatmap.counts[k]>> : k \in DOMAIN heatmap.counts}]
HeatmapFills(entries) ==
  LET maxCount == MathMax({e[2] : e \in entries})
  IN IF entries = {} THEN NoFill
     ELSE IF maxCount <= 0 THEN NoFill
     ELSE [fills |-> {[key |-> e[1],
                       num |-> IF e[2] < maxCount THEN e[2] ELSE maxCount,
                       den |-> maxCount] : e \in {d \in entries : ValidKey(d[1])}},
           threw |-> FALSE]

\* mutant of drawHeatmap: the guard on an undefined heatmap is missing
drawHeatmapUnguarded(heatmap) ==
  LET e == ObjectEntries(heatmap)
  IN IF e.threw THEN [fills |-> {}, threw |-> TRUE] ELSE HeatmapFills(e.entries)
\* mutant of drawHeatmap: every cell is filled at full intensity
drawHeatmapFlat(heatmap) ==
  IF ~heatmap.defined THEN NoFill
  ELSE [fills |-> {[key |-> k, num |-> 1, den |-> 1] :
                     k \in {d \in DOMAIN heatmap.counts : ValidKey(d)}},
        threw |-> FALSE]

drawHeatmap(heatmap) ==
  IF ~heatmap.defined THEN NoFill
  ELSE LET e == ObjectEntries(heatmap)
       IN IF e.threw THEN [fills |-> {}, threw |-> TRUE]
          ELSE HeatmapFills(e.entries)

\* drawRobots: one disc per robot, in list order
drawRobots(robots) ==
  [i \in 1 .. Len(robots) |-> [id |-> robots[i].robot_id,
                                color |-> robotColor(robots[i].robot_id)]]

\* one drawing step on the canvas: a layer, or the path or disc of a robot
Call(op, robot) == [op |-> op, robot |-> robot]
LayerCalls(layers) == [i \in 1 .. Len(layers) |-> Call(layers[i], <<>>)]
\* drawRobotPath: nothing for an empty path
drawRobotPath(robot) ==
  IF robot.path = 0 THEN <<>> ELSE <<Call("path", robot.robot_id)>>
\* drawRobots draws the disc of a robot before its path
drawRobotDiscFirst(robot) ==
  <<Call("robot", robot.robot_id)>> \o drawRobotPath(robot)
\* the forEach callback of drawRobots: the path of the robot, then its disc
drawRobot(robot) ==
  drawRobotPath(robot) \o <<Call("robot", robot.robot_id)>>
\* the drawing steps of drawRobots, robot by robot in list order
RECURSIVE RobotCalls(_)
RobotCalls(robots) ==
  IF robots = <<>> THEN <<>>
  ELSE drawRobot(Head(robots)) \o RobotCalls(Tail(robots))

LayersBelow == <<"grid", "obstacles", "pickup_zones", "dropoff_zones", "charging_zones">>
LayersAbove == <<"reservations", "packages", "robots">>
BlankFrame == [layers |-> <<>>, fills |-> {}, robots |-> <<>>, threw |-> FALSE,
               calls |-> <<>>]
NoProps == [layout |-> FALSE, heatmap |-> NoHeatmap, showHeatmap |-> TRUE, robots |-> <<>>]

\* the draw effect of WarehouseCanvas: without a layout there is no canvas;
\* an exception ends the effect where it is thrown
DrawEffect(props) ==
  LET heat == IF props.showHeatmap THEN drawHeatmap(props.heatmap) ELSE NoFill
  IN IF ~props.layout THEN BlankFrame
     ELSE IF heat.threw
          THEN [layers |-> LayersBelow, fills |-> {}, robots |-> <<>>, threw |-> TRUE,
                calls |-> LayerCalls(LayersBelow \o <<"heatmap">>)]
     ELSE [layers |-> LayersBelow \o LayersAbove, fills |-> heat.fills,
           robots |-> drawRobots(props.robots), threw |-> FALSE,
           calls |-> LayerCalls(LayersBelow)
                       \o (IF props.showHeatmap THEN LayerCalls(<<"heatmap">>)
                           ELSE <<>>)
                       \o LayerCalls(<<"reservations", "packages">>)
                       \o RobotCalls(props.robots)]

\* WarehouseCanvas is rendered with new props and its draw effect runs
RenderCanvas(props) ==
  /\ canvasProps' = props
  /\ canvasFrame' = DrawEffect(props)
  /\ UNCHANGED <<dashVars, activeTickMemo>>

LayoutProp(present) == RenderCanvas([canvasProps EXCEPT !.layout = present])
HeatmapProp(heatmap) == RenderCanvas([canvasProps EXCEPT !.heatmap = heatmap])
ShowHeatmapProp(show) == RenderCanvas([canvasProps EXCEPT !.showHeatmap = show])
RobotsProp(robots) == RenderCanvas([canvasProps EXCEPT !.robots = robots])

\* ------------------------------------------------------ commit and effects
\* The values a callback leaves behind: the queued state updates (th .. scl,
\* with arSet/runsSet/selSet telling that a setter produced a new object) and
\* the refs and requests as the callback itself left them.
Base ==
  [th |-> tickHistory, md |-> mode, cur |-> cursor,
   ar |-> activeRun, arSet |-> FALSE, rs |-> runs, runsSet |-> FALSE,
   sel |-> selectedScenario, selSet |-> FALSE, scl |-> scenariosLoaded,
   rid |-> activeRunIdRef, rst |-> runStageRef, pend |-> pending,
   tl |-> timeline, by |-> chosenBy]

\* auto-select effect, deps [activeRun?.id, handleRunSelect, runs, selectedScenario]
AutoSelectRequest(n) ==
  IF n.ar.id # activeRun.id \/ n.runsSet \/ n.selSet \/ n.scl # scenariosLoaded
  THEN LET preferred == Preferred(n.rs, n.sel)
       IN IF preferred # NoRun /\ preferred # n.ar.id THEN preferred ELSE NoRun
  ELSE NoRun

\* the commit of the queued updates and the effects they trigger
Commit(n) ==
  LET modeDeps == n.md # mode \/ Len(n.th) # Len(tickHistory)
      req == AutoSelectRequest(n)
  IN /\ tickHistory' = n.th
     /\ mode' = n.md
     /\ cursor' = IF modeDeps THEN ModeEffectCursor(n.md, n.th, n.cur) ELSE n.cur
     /\ modeRef' = IF modeDeps THEN n.md ELSE modeRef
     /\ activeRun' = n.ar
     /\ activeRunIdRef' = IF n.arSet THEN n.ar.id ELSE n.rid
     /\ runStageRef' = IF n.arSet THEN n.ar.stage ELSE n.rst
     /\ runs' = n.rs
     /\ selectedScenario' = n.sel
     /\ scenariosLoaded' = n.scl
     /\ timeline' = IF n.tl # timeline THEN RecentTimelineMemo(n.tl).stored ELSE n.tl
     /\ req # NoRun => BagCardinality(n.pend) < bound.pending
     /\ pending' = IF req = NoRun THEN n.pend
                   ELSE Enqueue(n.pend, req, n.scl, "auto")
     /\ chosenBy' = n.by
     /\ UNCHANGED viewVars

\* after the unmount the setters do nothing and no effect runs; the refs keep
\* what the callback wrote
Discard(n) ==
  /\ UNCHANGED <<tickHistory, mode, cursor, modeRef, activeRun, runs,
                 selectedScenario, scenariosLoaded, timeline, chosenBy,
                 viewVars>>
  /\ activeRunIdRef' = n.rid
  /\ runStageRef' = n.rst
  /\ pending' = n.pend

Render(n) == IF mounted THEN Commit(n) ELSE Discard(n)

\* ------------------------------------------------------------- connection
\* The socket handle, the timer handle and what they point into.
Conn ==
  [socks |-> sockets, sref |-> socketRef, tms |-> timers,
   tref |-> reconnectTimerRef, refresh |-> 0, toast |-> toast]

\* a socket whose close event has been handled: nothing of it is read again
ClosedSocket(r) == [run |-> r, attempt |-> 0, st |-> "closed", pos |-> 0]

\* WebSocket.close(): an open socket starts its closing handshake, a socket
\* that is failing, closing or closed is left as it is
SockClose(socks, id) ==
  IF socks[id].st = "open" THEN [socks EXCEPT ![id].st = "closingClean"] ELSE socks

ClearReconnectTimer(c) ==
  IF c.tref # NoTimer
  THEN [c EXCEPT !.tms = @ \ {c.tref}, !.tref = NoTimer]
  ELSE c

CloseSocket(c) ==
  LET c1 == ClearReconnectTimer(c)
  IN IF c1.sref # 0
     THEN [c1 EXCEPT !.socks = SockClose(@, c1.sref), !.sref = 0]
     ELSE c1

\* refreshRuns(): one more list request in flight
RefreshRuns(c) == [c EXCEPT !.refresh = @ + 1]

\* mutant of ShouldReconnect: the active run is not compared
ShouldReconnectAnyRun(runId, rid, rst) == rst \in {Null} \cup LiveStages
ShouldReconnect(runId, rid, rst) ==
  IF rid # runId THEN FALSE ELSE rst \in {Null} \cup LiveStages

\* mutant of ReconnectDelay: a constant delay
ReconnectDelayFlat(attempt) == 1000
\* Math.min(5, attempt + 1) * 1000
ReconnectDelay(attempt) == (IF attempt + 1 < 5 THEN attempt + 1 ELSE 5) * 1000
\* mutant of MaxAttemptReached: one retry more
MaxAttemptReachedLate(attempt) == attempt >= 6
\* attempt >= 5
MaxAttemptReached(attempt) == attempt >= 5

\* mutant of ScheduleReconnect: the pending timer is not cancelled first
ScheduleReconnectKeepTimer(c, s, by, rid, rst) ==
  LET runId == sockets[s].run
      attempt == sockets[s].attempt
      t == [sock |-> s, by |-> by, run |-> runId, attempt |-> attempt,
            delay |-> ReconnectDelay(attempt)]
  IN IF ~ShouldReconnect(runId, rid, rst) THEN RefreshRuns(ClearReconnectTimer(c))
     ELSE IF MaxAttemptReached(attempt)
          THEN RefreshRuns([ClearReconnectTimer(c) EXCEPT !.toast = ToastLost])
     ELSE [c EXCEPT !.tms = @ \cup {t}, !.tref = t]
\* scheduleReconnect(attempt) called by callback `by` of socket s
ScheduleReconnect(c, s, by, rid, rst) ==
  LET c1 == ClearReconnectTimer(c)
      runId == sockets[s].run
      attempt == sockets[s].attempt
      t == [sock |-> s, by |-> by, run |-> runId, attempt |-> attempt,
            delay |-> ReconnectDelay(attempt)]
  IN IF ~ShouldReconnect(runId, rid, rst) THEN RefreshRuns(c1)
     ELSE IF MaxAttemptReached(attempt)
          THEN RefreshRuns([c1 EXCEPT !.toast = ToastLost])
     ELSE [c1 EXCEPT !.tms = @ \cup {t}, !.tref = t]

\* connect(attempt) of attachRunStream(runId); the new socket receives the
\* ticks the server produces from now on
Connect(c, runId, attempt) ==
  LET c1 == CloseSocket(ClearReconnectTimer(c))
      socket == [run |-> runId, attempt |-> attempt, st |-> "open",
                 pos |-> Len(stream[runId])]
  IN [c1 EXCEPT !.socks = Append(@, socket), !.sref = Len(c1.socks) + 1]

SetConn(c) ==
  /\ sockets' = c.socks
  /\ socketRef' = c.sref
  /\ timers' = c.tms
  /\ reconnectTimerRef' = c.tref
  /\ refreshing' = IF refreshing + c.refresh > bound.refresh THEN bound.refresh
                   ELSE refreshing + c.refresh
  /\ toast' = IF mounted THEN c.toast ELSE toast

\* ------------------------------------------------------------ handleTick
HandleTick(tick, c) ==
  LET runId == activeRunIdRef
      next == AppendTick(tickHistory, tick)
      n == [Base EXCEPT
              !.rst = tick.stage,
              !.th = next,
              !.cur = TickCursor(modeRef, next, cursor),
              !.rs = IF runId # NoRun /\ runs[runId] # Absent
                     THEN [runs EXCEPT ![runId] = tick.stage] ELSE runs,
              !.runsSet = runId # NoRun,
              !.ar = IF activeRun # NoActiveRun
                     THEN [activeRun EXCEPT !.stage = tick.stage, !.hasState = TRUE]
                     ELSE activeRun,
              !.arSet = activeRun # NoActiveRun,
              !.tl = MergeTimeline(timeline, RecentEvents(tick))]
  IN /\ Render(n)
     /\ SetConn(IF IsTerminal(tick.stage) THEN RefreshRuns(c) ELSE c)
     /\ putLog' = Append(putLog, tick)

\* ------------------------------------------------------------------ Init
\* The component after its first render; the mount effect has issued
\* refreshScenarios and refreshRuns.  The server holds run A, still queued.
Mounted ==
  /\ scenariosLoaded = FALSE
  /\ runs = [r \in Runs |-> Absent]
  /\ selectedScenario = NoScenario
  /\ activeRun = NoActiveRun
  /\ tickHistory = <<>>
  /\ mode = "live"
  /\ cursor = 0
  /\ socketRef = 0
  /\ modeRef = "live"
  /\ activeRunIdRef = NoRun
  /\ runStageRef = Null
  /\ reconnectTimerRef = NoTimer
  /\ srvStage = [r \in Runs |-> IF r = "A" THEN "QUEUED" ELSE Absent]
  /\ stream = [r \in Runs |-> <<>>]
  /\ sockets = <<>>
  /\ timers = {}
  /\ pending = EmptyBag
  /\ refreshing = 1
  /\ timeline = <<>>
  /\ toast = NoToast
  /\ batches = [r \in Runs |-> <<>>]
  /\ mounted = TRUE
  /\ lastEvent = "mount"
  /\ putLog = <<>>
  /\ chosenBy = "none"
  /\ canvasProps = NoProps
  /\ canvasFrame = BlankFrame
  /\ activeTickMemo = NoMemo

Bounds(t, s) ==
  [ticks |-> t, sockets |-> s, pending |-> MaxPending, refresh |-> MaxRefresh,
   outcomes |-> {}, events |-> 0, malformed |-> 0, runs |-> 1,
   restFails |-> TRUE, seeds |-> BOOLEAN, scenarioOf |-> [r \in Runs |-> "S1"]]

\* ----------------------------------------------------------- REST results
\* refreshScenarios resolved (issued once, by the mount effect)
RefreshScenariosResolve ==
  /\ ~scenariosLoaded
  /\ Render([Base EXCEPT
               !.scl = TRUE,
               !.sel = IF selectedScenario \in Scenarios THEN selectedScenario ELSE "S1",
               !.selSet = TRUE])
  /\ lastEvent' = "other"
  /\ UNCHANGED <<envVars, connVars, refreshing, putLog, toast, mounted>>

\* refreshRuns resolved: setRuns(list)
RefreshRunsResolve ==
  /\ refreshing > 0
  /\ refreshing' = refreshing - 1
  /\ Render([Base EXCEPT !.rs = srvStage, !.runsSet = TRUE])
  /\ lastEvent' = "other"
  /\ UNCHANGED <<envVars, connVars, putLog, toast, mounted>>

\* RunHistoryList onSelectRun: handleRunSelect(r) up to its await
ClickRun(r) ==
  /\ mounted
  /\ runs[r] # Absent
  /\ BagCardinality(pending) < bound.pending
  /\ Render([Base EXCEPT !.pend = Enqueue(pending, r, scenariosLoaded, "operator")])
  /\ lastEvent' = "other"
  /\ UNCHANGED <<envVars, connVars, refreshing, putLog, toast, mounted>>

\* the service answers fetchRunDetail / fetchRunTimeline of one request
SelectRespond(q) ==
  /\ BagIn(q, pending)
  /\ q.resp = "none"
  /\ \E ok \in BOOLEAN, hs \in bound.seeds :
       LET a == IF ok THEN [q EXCEPT !.resp = "ok", !.stage = srvStage[q.run],
                                     !.hasState = hs,
                                     !.seed = IF bound.events > 0
                                              THEN Len(stream[q.run]) ELSE 0]
                ELSE [q EXCEPT !.resp = "err"]
       IN /\ ok \/ hs = (TRUE \in bound.seeds /\ FALSE \notin bound.seeds)
          /\ ok \/ bound.restFails
          /\ Render([Base EXCEPT !.pend = (pending (-) SetToBag({q})) (+) SetToBag({a})])
  /\ lastEvent' = "other"
  /\ UNCHANGED <<envVars, connVars, refreshing, putLog, toast, mounted>>

\* handleRunSelect after its await
HandleRunSelect(q) ==
  /\ BagIn(q, pending)
  /\ q.resp = "ok"
  /\ LET detail == [id |-> q.run, stage |-> q.stage, hasState |-> q.hasState]
         isLive == detail.stage \in LiveStages
         sel == IF selectedScenario = ScenarioOf(detail.id) THEN selectedScenario
                ELSE IF q.scen THEN ScenarioOf(detail.id) ELSE selectedScenario
         n == [Base EXCEPT
                 !.rst = detail.stage,
                 !.rid = detail.id,
                 !.ar = detail,
                 !.arSet = TRUE,
                 !.sel = sel,
                 !.selSet = sel # selectedScenario,
                 !.th = SeedTick(detail),
                 !.tl = TimelineSeed(RunTimeline(q.run, q.seed)),
                 !.md = SelectMode(detail),
                 !.cur = SelectCursor(detail),
                 !.pend = Dequeue(pending, q),
                 !.by = q.by]
     IN /\ isLive => Len(sockets) < bound.sockets
        /\ Render(n)
        /\ SetConn(IF isLive THEN Connect(Conn, q.run, 0) ELSE CloseSocket(Conn))
        /\ putLog' = SeedTick(detail)
  /\ lastEvent' = IF reconnectTimerRef # NoTimer THEN "selectCancel" ELSE "select"
  /\ UNCHANGED <<envVars, mounted>>

\* handleRunSelect's catch: only the notice
\* mutant of HandleRunSelectFailed: the catch branch closes the stream
HandleRunSelectFailedClosing(q) ==
  /\ BagIn(q, pending)
  /\ q.resp = "err"
  /\ Render([Base EXCEPT !.pend = Dequeue(pending, q)])
  /\ SetConn([CloseSocket(Conn) EXCEPT !.toast = ToastLoadFailed])
  /\ lastEvent' = "other"
  /\ UNCHANGED <<envVars, putLog, mounted>>
\* handleRunSelect, catch branch: the requests of the selection failed
HandleRunSelectFailed(q) ==
  /\ BagIn(q, pending)
  /\ q.resp = "err"
  /\ Render([Base EXCEPT !.pend = Dequeue(pending, q)])
  /\ toast' = IF mounted THEN ToastLoadFailed ELSE toast
  /\ lastEvent' = "other"
  /\ UNCHANGED <<envVars, connVars, refreshing, putLog, mounted>>

\* ------------------------------------------------------------ operator UI
\* history label of a click on a mode control: the switch it made, if any
ModeEvent(m) ==
  IF m = mode THEN "other" ELSE IF m = "live" THEN "toLive" ELSE "toReplay"

\* header button: setMode(mode === "live" ? "replay" : "live")
ToggleMode ==
  /\ mounted
  /\ activeRun # NoActiveRun
  /\ Render([Base EXCEPT !.md = IF mode = "live" THEN "replay" ELSE "live"])
  /\ lastEvent' = ModeEvent(mode')
  /\ UNCHANGED <<envVars, connVars, refreshing, putLog, toast, mounted>>

\* RunPlaybackControls buttons: onModeChange("live"), onModeChange("replay")
PlaybackMode(m) ==
  /\ mounted
  /\ activeRun # NoActiveRun
  /\ m = "replay" => ~DisableReplay(Len(tickHistory))
  /\ Render([Base EXCEPT !.md = m])
  /\ lastEvent' = ModeEvent(m)
  /\ UNCHANGED <<envVars, connVars, refreshing, putLog, toast, mounted>>

\* RunPlaybackControls slider: onSeek(Number(event.target.value))
Seek(raw) ==
  /\ mounted
  /\ activeRun # NoActiveRun
  /\ ~SliderDisabled(mode, Len(tickHistory))
  /\ Render([Base EXCEPT !.cur = SliderValue(raw, Len(tickHistory))])
  /\ lastEvent' = IF raw = SliderValue(raw, Len(tickHistory)) THEN "seek"
                   ELSE "seekClamped"
  /\ UNCHANGED <<envVars, connVars, refreshing, putLog, toast, mounted>>

\* ScenarioCatalog onSelect
SelectScenario(sc) ==
  /\ mounted
  /\ scenariosLoaded
  /\ Render([Base EXCEPT !.sel = sc, !.selSet = sc # selectedScenario])
  /\ lastEvent' = "other"
  /\ UNCHANGED <<envVars, connVars, refreshing, putLog, toast, mounted>>

\* ---------------------------------------------------------------- server
\* Stage lifecycle: QUEUED -> WARMING_UP -> RUNNING -> a terminal stage
NextStages(stage) ==
  IF stage = "QUEUED" THEN {"WARMING_UP"}
  ELSE IF stage = "WARMING_UP" THEN {"RUNNING"}
  ELSE IF stage = "RUNNING" THEN bound.outcomes ELSE {}

ServerAdvance(r) ==
  /\ \E st \in NextStages(srvStage[r]) : srvStage' = [srvStage EXCEPT ![r] = st]
  /\ lastEvent' = "other"
  /\ Render(Base)
  /\ UNCHANGED <<stream, batches, bound, connVars, refreshing, putLog, toast,
                 mounted>>

\* the simulation produces the next tick of run r (the last one carries the
\* terminal stage)
ServerTick(r) ==
  /\ Len(stream[r]) < bound.ticks
  /\ srvStage[r] \notin {"QUEUED", Absent}
  /\ \A i \in 1 .. Len(stream[r]) : ~IsTerminal(stream[r][i])
  /\ stream' = [stream EXCEPT ![r] = Append(@, srvStage[r])]
  /\ \E k \in 0 .. bound.events : batches' = [batches EXCEPT ![r] = Append(@, k)]
  /\ lastEvent' = "other"
  /\ Render(Base)
  /\ UNCHANGED <<srvStage, bound, connVars, refreshing, putLog, toast, mounted>>

\* --------------------------------------------------------- socket events
\* socket.onmessage with a well-formed tick
Deliver(s) ==
  /\ s \in 1 .. Len(sockets)
  /\ sockets[s].st = "open"
  /\ sockets[s].pos < Len(stream[sockets[s].run])
  /\ stream[sockets[s].run][sockets[s].pos + 1] \in Stages
  /\ LET r == sockets[s].run
         k == sockets[s].pos + 1
     IN HandleTick(Tick(r, k, stream[r][k]),
                   [Conn EXCEPT !.socks = [sockets EXCEPT ![s].pos = k]])
  /\ lastEvent' = "tick"
  /\ UNCHANGED <<envVars, mounted>>

\* the transport fails: the browser will fire error, then an unclean close
SocketFail(s) ==
  /\ s \in 1 .. Len(sockets)
  /\ sockets[s].st = "open"
  /\ sockets' = [sockets EXCEPT ![s].st = "erroring"]
  /\ lastEvent' = "other"
  /\ Render(Base)
  /\ UNCHANGED <<envVars, socketRef, reconnectTimerRef, timers, refreshing, putLog,
                 toast, mounted>>

\* the server ends the stream with a close frame
ServerClose(s) ==
  /\ s \in 1 .. Len(sockets)
  /\ sockets[s].st = "open"
  /\ sockets' = [sockets EXCEPT ![s].st = "closingClean"]
  /\ lastEvent' = "other"
  /\ Render(Base)
  /\ UNCHANGED <<envVars, socketRef, reconnectTimerRef, timers, refreshing, putLog,
                 toast, mounted>>

\* mutant of ErrorToast: every failure raises the notice
ErrorToastAlways(attempt, current) == ToastInterrupted
\* if (attempt === 0) setToast(...)
ErrorToast(attempt, current) == IF attempt = 0 THEN ToastInterrupted ELSE current

\* connect's onError callback
OnError(s) ==
  /\ s \in 1 .. Len(sockets)
  /\ sockets[s].st = "erroring"
  /\ SetConn(ScheduleReconnect(
               [Conn EXCEPT !.socks = [sockets EXCEPT ![s].st = "closingUnclean"],
                            !.toast = ErrorToast(sockets[s].attempt, @)],
               s, "error", activeRunIdRef, runStageRef))
  /\ lastEvent' = "other"
  /\ Render(Base)
  /\ UNCHANGED <<envVars, putLog, mounted>>

\* connect's onClose callback
OnClose(s) ==
  /\ s \in 1 .. Len(sockets)
  /\ sockets[s].st \in {"closingClean", "closingUnclean"}
  /\ LET wasClean == sockets[s].st = "closingClean"
         c == [Conn EXCEPT !.socks = [sockets EXCEPT ![s] = ClosedSocket(sockets[s].run)],
                           !.sref = 0]
     IN SetConn(IF wasClean \/ ~ShouldReconnect(sockets[s].run, activeRunIdRef,
                                                runStageRef)
                THEN RefreshRuns(ClearReconnectTimer(c))
                ELSE ScheduleReconnect(c, s, "close", activeRunIdRef, runStageRef))
  /\ lastEvent' = "other"
  /\ Render(Base)
  /\ UNCHANGED <<envVars, putLog, mounted>>

\* the reconnect timer fires: connect(attempt + 1)
TimerFire(t) ==
  /\ t \in timers
  /\ Len(sockets) < bound.sockets
  /\ SetConn(Connect([Conn EXCEPT !.tms = @ \ {t}], t.run, t.attempt + 1))
  /\ Render([Base EXCEPT !.rid = t.run])
  /\ lastEvent' = "timer"
  /\ UNCHANGED <<envVars, putLog, mounted>>

\* ----------------------------------------------------- malformed messages
Malformed == {"invalid", "fieldless"}

\* the stream carries a message that is no tick: text that is not JSON
\* ("invalid"), or a JSON object without the fields of a tick ("fieldless")
ServerGarbage(r, kind) ==
  /\ Len(stream[r]) < bound.ticks
  /\ srvStage[r] \in LiveStages
  /\ Cardinality({i \in 1 .. Len(stream[r]) : stream[r][i] \in Malformed})
       < bound.malformed
  /\ stream' = [stream EXCEPT ![r] = Append(@, kind)]
  /\ batches' = [batches EXCEPT ![r] = Append(@, 0)]
  /\ lastEvent' = "other"
  /\ Render(Base)
  /\ UNCHANGED <<srvStage, bound, connVars, refreshing, putLog, toast, mounted>>

\* socket.onmessage, JSON.parse throws: the catch logs, nothing else happens
DeliverInvalid(s) ==
  /\ s \in 1 .. Len(sockets)
  /\ sockets[s].st = "open"
  /\ sockets[s].pos < Len(stream[sockets[s].run])
  /\ stream[sockets[s].run][sockets[s].pos + 1] = "invalid"
  /\ sockets' = [sockets EXCEPT ![s].pos = @ + 1]
  /\ lastEvent' = "malformed"
  /\ Render(Base)
  /\ UNCHANGED <<envVars, socketRef, reconnectTimerRef, timers, refreshing, putLog,
                 toast, mounted>>

\* handleTick with an object that has none of the fields of a tick: stage,
\* state, metrics and heatmap read as undefined, and tick.recent_events.length
\* throws after the first three setters were called; the catch of onmessage
\* logs the error
HandleTickFieldless(tick, c) ==
  LET runId == activeRunIdRef
      next == AppendTick(tickHistory, tick)
      n == [Base EXCEPT
              !.rst = Null,
              !.th = next,
              !.cur = TickCursor(modeRef, next, cursor),
              !.rs = IF runId # NoRun /\ runs[runId] # Absent
                     THEN [runs EXCEPT ![runId] = Null] ELSE runs,
              !.runsSet = runId # NoRun,
              !.ar = IF activeRun # NoActiveRun
                     THEN [activeRun EXCEPT !.stage = Null, !.hasState = FALSE]
                     ELSE activeRun,
              !.arSet = activeRun # NoActiveRun]
  IN /\ Render(n)
     /\ SetConn(c)
     /\ putLog' = Append(putLog, tick)

\* socket.onmessage with JSON that parses but is no tick
DeliverFieldless(s) ==
  /\ s \in 1 .. Len(sockets)
  /\ sockets[s].st = "open"
  /\ sockets[s].pos < Len(stream[sockets[s].run])
  /\ stream[sockets[s].run][sockets[s].pos + 1] = "fieldless"
  /\ LET r == sockets[s].run
         k == sockets[s].pos + 1
     IN HandleTickFieldless(Tick(r, k, Null),
                            [Conn EXCEPT !.socks = [sockets EXCEPT ![s].pos = k]])
  /\ lastEvent' = "malformed"
  /\ UNCHANGED <<envVars, mounted>>

\* ------------------------------------------------------ view and launches
\* the toast effect's timer: setToast(null) four seconds after a notice
ToastTimeout ==
  /\ mounted
  /\ toast # NoToast
  /\ toast' = NoToast
  /\ lastEvent' = "other"
  /\ Render(Base)
  /\ UNCHANGED <<envVars, connVars, refreshing, putLog, mounted>>

\* the operator leaves the view: the mount effect's cleanup runs closeSocket
Unmount ==
  /\ mounted
  /\ mounted' = FALSE
  /\ SetConn(CloseSocket(Conn))
  /\ lastEvent' = "other"
  /\ UNCHANGED <<scenariosLoaded, runs, selectedScenario, activeRun, tickHistory,
                 mode, cursor, timeline, modeRef, activeRunIdRef, runStageRef,
                 pending, envVars, putLog, chosenBy, viewVars>>

\* the service stores one more run, queued
ServerLaunch(r) ==
  /\ srvStage[r] = Absent
  /\ Cardinality({q \in Runs : srvStage[q] # Absent}) < bound.runs
  /\ srvStage' = [srvStage EXCEPT ![r] = "QUEUED"]
  /\ lastEvent' = "other"
  /\ Render(Base)
  /\ UNCHANGED <<stream, batches, bound, connVars, refreshing, putLog, toast,
                 mounted>>

\* the browser fires error and close of a failed socket in one task: between
\* the two callbacks nothing else runs
Quiet == \A s \in 1 .. Len(sockets) : sockets[s].st # "closingUnclean"

\* ------------------------------------------------------------------ Next
Requests == DOMAIN pending
SocketIds == 1 .. Len(sockets)
SeekInputs == 0 - 1 .. TICK_HISTORY_LIMIT

\* every callback and every step of the environment
Next ==
  \/ RefreshScenariosResolve
  \/ RefreshRunsResolve
  \/ \E r \in Runs : ClickRun(r)
  \/ \E q \in Requests : SelectRespond(q)
  \/ \E q \in Requests : HandleRunSelect(q)
  \/ \E q \in Requests : HandleRunSelectFailed(q)
  \/ ToggleMode
  \/ \E m \in {"live", "replay"} : PlaybackMode(m)
  \/ \E raw \in SeekInputs : Seek(raw)
  \/ \E sc \in Scenarios : SelectScenario(sc)
  \/ \E r \in Runs : ServerAdvance(r)
  \/ \E r \in Runs : ServerTick(r)
  \/ \E s \in SocketIds : Deliver(s)
  \/ \E s \in SocketIds : SocketFail(s)
  \/ \E s \in SocketIds : ServerClose(s)
  \/ \E s \in SocketIds : OnError(s)
  \/ \E s \in SocketIds : OnClose(s)
  \/ \E t \in timers : TimerFire(t)
  \/ \E r \in Runs, kind \in Malformed : ServerGarbage(r, kind)
  \/ \E s \in SocketIds : DeliverInvalid(s)
  \/ \E s \in SocketIds : DeliverFieldless(s)
  \/ ToastTimeout
  \/ Unmount
  \/ \E r \in Runs : ServerLaunch(r)
  \/ \E present \in BOOLEAN : LayoutProp(present)
  \/ \E heatmap \in NearHeatmaps(canvasProps.heatmap) : HeatmapProp(heatmap)
  \/ \E show \in BOOLEAN : ShowHeatmapProp(show)
  \/ \E robots \in RobotLists : RobotsProp(robots)
  \/ \E th \in MemoHistories, md \in {"live", "replay"}, cur \in MemoCursors :
       ActiveTickMemo(th, md, cur)

Init ==
  /\ Mounted
  /\ bound = [Bounds(ReselectTicks, MaxSockets) EXCEPT !.outcomes = TerminalStages]

Spec == Init /\ [][Next]_vars

\* Playback: one run streams without transport or request failures while the
\* operator selects it, switches mode and scrubs; the scenario list never
\* arrives.
InitPlayback ==
  /\ Mounted
  /\ bound = [Bounds(MaxTicks, MaxSockets) EXCEPT !.outcomes = {"COMPLETED"},
                                                 !.restFails = FALSE]

NextPlayback ==
  \/ RefreshRunsResolve
  \/ \E r \in Runs : ClickRun(r)
  \/ \E q \in Requests : SelectRespond(q)
  \/ \E q \in Requests : HandleRunSelect(q)
  \/ ToggleMode
  \/ \E m \in {"live", "replay"} : PlaybackMode(m)
  \/ \E raw \in SeekInputs : Seek(raw)
  \/ \E r \in Runs : ServerAdvance(r)
  \/ \E r \in Runs : ServerTick(r)
  \/ \E s \in SocketIds : Deliver(s)
  \/ \E s \in SocketIds : ServerClose(s)
  \/ \E s \in SocketIds : OnClose(s)

SpecPlayback == InitPlayback /\ [][NextPlayback]_vars

\* Reselect: the run is selected again and again (by the operator and by the
\* auto-select effect) while it streams; no transport failures.
InitReselect ==
  /\ Mounted
  /\ bound = [Bounds(ReselectTicks, ReselectSockets) EXCEPT !.outcomes = {"COMPLETED"}]

NextReselect ==
  \/ RefreshScenariosResolve
  \/ RefreshRunsResolve
  \/ \E r \in Runs : ClickRun(r)
  \/ \E q \in Requests : SelectRespond(q)
  \/ \E q \in Requests : HandleRunSelect(q)
  \/ \E q \in Requests : HandleRunSelectFailed(q)
  \/ \E r \in Runs : ServerAdvance(r)
  \/ \E r \in Runs : ServerTick(r)
  \/ \E s \in SocketIds : Deliver(s)
  \/ \E s \in SocketIds : OnClose(s)

SpecReselect == InitReselect /\ [][NextReselect]_vars

\* Reconnect: the stream of one run fails and is re-attached by timers and by
\* new selections of the run; the run details carry no state.
InitReconnect ==
  /\ Mounted
  /\ bound = [Bounds(ReconnectTicks, ReconnectSockets)
                EXCEPT !.outcomes = {"COMPLETED"}, !.restFails = FALSE,
                       !.seeds = {FALSE}]

NextReconnect ==
  \/ Quiet /\ RefreshRunsResolve
  \/ \E r \in Runs : Quiet /\ ClickRun(r)
  \/ \E q \in Requests : Quiet /\ SelectRespond(q)
  \/ \E q \in Requests : Quiet /\ HandleRunSelect(q)
  \/ \E r \in Runs : Quiet /\ ServerAdvance(r)
  \/ \E r \in Runs : Quiet /\ ServerTick(r)
  \/ \E s \in SocketIds : Quiet /\ Deliver(s)
  \/ \E s \in SocketIds : Quiet /\ SocketFail(s)
  \/ \E s \in SocketIds : Quiet /\ OnError(s)
  \/ \E s \in SocketIds : (Quiet \/ sockets[s].st = "closingUnclean") /\ OnClose(s)
  \/ \E t \in timers : Quiet /\ TimerFire(t)

SpecReconnect == InitReconnect /\ [][NextReconnect]_vars

\* Recover: the behaviours of Reconnect in which the browser runs every
\* callback that is due: a socket's error and close events are dispatched,
\* and a pending timer fires.
FairReconnect ==
  /\ WF_vars(\E s \in SocketIds : Quiet /\ OnError(s))
  /\ WF_vars(\E s \in SocketIds : (Quiet \/ sockets[s].st = "closingUnclean") /\ OnClose(s))
  /\ WF_vars(\E t \in timers : Quiet /\ TimerFire(t))

SpecRecover == InitReconnect /\ [][NextReconnect]_vars /\ FairReconnect

\* Switch: the service holds two runs that do not finish and send no ticks;
\* the operator switches between them while their streams fail and reconnect.
InitSwitch ==
  /\ Mounted
  /\ bound = [Bounds(0, SwitchSockets)
                EXCEPT !.restFails = FALSE, !.seeds = {FALSE}, !.runs = 2]

NextSwitch ==
  \/ Quiet /\ RefreshRunsResolve
  \/ \E r \in Runs : Quiet /\ ServerLaunch(r)
  \/ \E r \in Runs : Quiet /\ ClickRun(r)
  \/ \E q \in Requests : Quiet /\ SelectRespond(q)
  \/ \E q \in Requests : Quiet /\ HandleRunSelect(q)
  \/ \E r \in Runs : Quiet /\ ServerAdvance(r)
  \/ \E s \in SocketIds : Quiet /\ SocketFail(s)
  \/ \E s \in SocketIds : Quiet /\ OnError(s)
  \/ \E s \in SocketIds : (Quiet \/ sockets[s].st = "closingUnclean") /\ OnClose(s)
  \/ \E t \in timers : Quiet /\ TimerFire(t)

SpecSwitch == InitSwitch /\ [][NextSwitch]_vars

\* Backoff: the auto-select effect attaches the stream of the run once; the
\* stream fails again and again, notices time out, and the view is left.
InitBackoff ==
  /\ Mounted
  /\ bound = [Bounds(BackoffTicks, BackoffSockets)
                EXCEPT !.outcomes = {"COMPLETED"}, !.restFails = FALSE,
                       !.seeds = {FALSE}]

NextBackoff ==
  \/ Quiet /\ RefreshScenariosResolve
  \/ Quiet /\ RefreshRunsResolve
  \/ \E q \in Requests : Quiet /\ SelectRespond(q)
  \/ \E q \in Requests : Quiet /\ HandleRunSelect(q)
  \/ \E r \in Runs : Quiet /\ ServerAdvance(r)
  \/ \E r \in Runs : Quiet /\ ServerTick(r)
  \/ \E s \in SocketIds : Quiet /\ Deliver(s)
  \/ \E s \in SocketIds : Quiet /\ SocketFail(s)
  \/ \E s \in SocketIds : Quiet /\ OnError(s)
  \/ \E s \in SocketIds : (Quiet \/ sockets[s].st = "closingUnclean") /\ OnClose(s)
  \/ \E t \in timers : Quiet /\ TimerFire(t)
  \/ Quiet /\ ToastTimeout
  \/ Quiet /\ Unmount

SpecBackoff == InitBackoff /\ [][NextBackoff]_vars

\* Stream: the ticks of one run carry events, the stream carries malformed
\* messages, and the run is selected again while it streams.
InitStream ==
  /\ Mounted
  /\ bound = [Bounds(StreamTicks, StreamSockets)
                EXCEPT !.outcomes = {"COMPLETED"}, !.restFails = FALSE,
                       !.seeds = {FALSE}, !.events = MaxEvents,
                       !.malformed = MaxMalformed]

NextStream ==
  \/ RefreshRunsResolve
  \/ \E r \in Runs : ClickRun(r)
  \/ \E q \in Requests : SelectRespond(q)
  \/ \E q \in Requests : HandleRunSelect(q)
  \/ \E r \in Runs : ServerAdvance(r)
  \/ \E r \in Runs : ServerTick(r)
  \/ \E r \in Runs, kind \in Malformed : ServerGarbage(r, kind)
  \/ \E s \in SocketIds : Deliver(s)
  \/ \E s \in SocketIds : DeliverInvalid(s)
  \/ \E s \in SocketIds : DeliverFieldless(s)

SpecStream == InitStream /\ [][NextStream]_vars

\* Handover: the service holds two runs that stream ticks with events; the
\* operator switches between them; no transport or request failures.
InitHandover ==
  /\ Mounted
  /\ bound = [Bounds(HandoverTicks, HandoverSockets)
                EXCEPT !.restFails = FALSE, !.seeds = {FALSE}, !.runs = 2,
                       !.events = HandoverEvents]

NextHandover ==
  \/ RefreshRunsResolve
  \/ \E r \in Runs : ServerLaunch(r)
  \/ \E r \in Runs : ClickRun(r)
  \/ \E q \in Requests : SelectRespond(q)
  \/ \E q \in Requests : HandleRunSelect(q)
  \/ \E r \in Runs : ServerAdvance(r)
  \/ \E r \in Runs : ServerTick(r)
  \/ \E s \in SocketIds : Deliver(s)
  \/ \E s \in SocketIds : OnClose(s)

SpecHandover == InitHandover /\ [][NextHandover]_vars

\* Stale: two run selections are in flight at once for two runs that send
\* no ticks; their results arrive in either order.
InitStale ==
  /\ Mounted
  /\ bound = [Bounds(0, StaleSockets)
                EXCEPT !.restFails = FALSE, !.seeds = {FALSE}, !.runs = 2,
                       !.pending = StalePending]

NextStale ==
  \/ RefreshRunsResolve
  \/ \E r \in Runs : ServerLaunch(r)
  \/ \E r \in Runs : ClickRun(r)
  \/ \E q \in Requests : SelectRespond(q)
  \/ \E q \in Requests : HandleRunSelect(q)
  \/ \E r \in Runs : ServerAdvance(r)
  \/ \E s \in SocketIds : OnClose(s)

SpecStale == InitStale /\ [][NextStale]_vars

\* AutoSelect: two runs of either scenario in any stage; the scenario and run
\* lists arrive, the operator picks scenarios and runs, and the auto-select
\* effect picks runs.
InitAutoSelect ==
  /\ Mounted
  /\ \E f \in [Runs -> Scenarios] :
       bound = [Bounds(0, AutoSelectSockets)
                  EXCEPT !.restFails = FALSE, !.seeds = {FALSE}, !.runs = 2,
                         !.outcomes = {"COMPLETED"}, !.scenarioOf = f]

NextAutoSelect ==
  \/ RefreshScenariosResolve
  \/ RefreshRunsResolve
  \/ \E sc \in Scenarios : SelectScenario(sc)
  \/ \E r \in Runs : ServerLaunch(r)
  \/ \E r \in Runs : ServerAdvance(r)
  \/ \E r \in Runs : ClickRun(r)
  \/ \E q \in Requests : SelectRespond(q)
  \/ \E q \in Requests : HandleRunSelect(q)
  \/ \E s \in SocketIds : OnClose(s)

SpecAutoSelect == InitAutoSelect /\ [][NextAutoSelect]_vars

\* AutoTick: two runs of the selected scenario; the active run streams ticks
\* while the auto-select effect asks for the other run, and more than one
\* selection request can be in flight.
InitAutoTick ==
  /\ Mounted
  /\ bound = [Bounds(AutoTickTicks, AutoTickSockets)
                EXCEPT !.restFails = FALSE, !.seeds = {FALSE}, !.runs = 2,
                       !.pending = AutoTickPending]

NextAutoTick ==
  \/ RefreshScenariosResolve
  \/ RefreshRunsResolve
  \/ \E r \in Runs : ServerLaunch(r)
  \/ \E r \in Runs : ServerAdvance(r)
  \/ \E r \in Runs : ServerTick(r)
  \/ \E s \in SocketIds : Deliver(s)
  \/ \E r \in Runs : ClickRun(r)
  \/ \E q \in Requests : SelectRespond(q)
  \/ \E q \in Requests : HandleRunSelect(q)
  \/ \E s \in SocketIds : OnClose(s)

SpecAutoTick == InitAutoTick /\ [][NextAutoTick]_vars

\* Queued: one run, selected by the auto-select effect, with no operator at
\* the dashboard; the service starts the run, sends its ticks and closes its
\* streams. Every request is answered, and the browser runs every callback
\* that is due.
InitQueued ==
  /\ Mounted
  /\ bound = [Bounds(MaxTicks, MaxSockets)
                EXCEPT !.restFails = FALSE, !.seeds = {FALSE},
                       !.outcomes = {"COMPLETED"}]

NextQueued ==
  \/ RefreshScenariosResolve
  \/ RefreshRunsResolve
  \/ \E q \in Requests : SelectRespond(q)
  \/ \E q \in Requests : HandleRunSelect(q)
  \/ \E r \in Runs : ServerAdvance(r)
  \/ \E r \in Runs : ServerTick(r)
  \/ \E s \in SocketIds : Deliver(s)
  \/ \E s \in SocketIds : ServerClose(s)
  \/ \E s \in SocketIds : OnClose(s)

FairQueued ==
  /\ WF_vars(RefreshScenariosResolve)
  /\ WF_vars(RefreshRunsResolve)
  /\ WF_vars(\E q \in Requests : SelectRespond(q))
  /\ WF_vars(\E q \in Requests : HandleRunSelect(q))
  /\ WF_vars(\E r \in Runs : ServerTick(r))
  /\ WF_vars(\E s \in SocketIds : Deliver(s))
  /\ WF_vars(\E s \in SocketIds : OnClose(s))

SpecQueued == InitQueued /\ [][NextQueued]_vars /\ FairQueued

\* Canvas: WarehouseCanvas is rendered with every combination of layout,
\* heatmap, show-heatmap flag and robots; one prop changes at a time, the
\* heatmap in one cell at a time.
InitCanvas ==
  /\ Mounted
  /\ bound = Bounds(0, 0)

NextCanvas ==
  \/ \E present \in BOOLEAN : LayoutProp(present)
  \/ \E heatmap \in NearHeatmaps(canvasProps.heatmap) : HeatmapProp(heatmap)
  \/ \E show \in BOOLEAN : ShowHeatmapProp(show)
  \/ \E robots \in RobotLists : RobotsProp(robots)

SpecCanvas == InitCanvas /\ [][NextCanvas]_vars

\* ActiveTick: the activeTick memo alone.
InitActiveTick ==
  /\ Mounted
  /\ bound = Bounds(0, 0)

NextActiveTick ==
  \E th \in MemoHistories, md \in {"live", "replay"}, cur \in MemoCursors :
    ActiveTickMemo(th, md, cur)

SpecActiveTick == InitActiveTick /\ [][NextActiveTick]_vars

\* ================================================================ claims
Min(a, b) == IF a < b THEN a ELSE b
\* the last n elements of a sequence, in order
LastN(seq, n) == SubSeq(seq, Len(seq) - n + 1, Len(seq))

\* C1: after any sequence of tick appends and run selections the Tick Buffer
\* never holds more than TICK_HISTORY_LIMIT ticks.
C1_BufferWithinCap == Len(tickHistory) <= TICK_HISTORY_LIMIT

\* C1 witness: the buffer is full and more ticks than the cap have been put
\* into it, so an append at capacity has happened.
C1_Witness ==
  /\ lastEvent = "tick"
  /\ Len(tickHistory) = TICK_HISTORY_LIMIT
  /\ Len(putLog) > TICK_HISTORY_LIMIT

\* C2: with n ticks put into the buffer since it was last replaced (the seed
\* tick counted), the buffer is exactly the most recent min(n, cap) of them,
\* oldest first; so nothing is evicted up to the cap and every append beyond
\* it removes exactly the oldest tick.
C2_BufferIsRecentSuffix ==
  tickHistory = LastN(putLog, Min(Len(putLog), TICK_HISTORY_LIMIT))

\* C2 witness: a seed tick and enough stream ticks for two evictions.
C2_Witness ==
  /\ Len(putLog) >= TICK_HISTORY_LIMIT + 2
  /\ putLog[1].seq = 0
  /\ tickHistory[1] = putLog[Len(putLog) - TICK_HISTORY_LIMIT + 1]

\* C3: every tick the server sends for a run is applied to the Tick Buffer at
\* most once and in arrival order: no tick appears twice in the buffer and no
\* two ticks of a run appear in swapped order.
C3_AppliedOnceInOrder ==
  \A i, j \in 1 .. Len(tickHistory) :
    i < j /\ tickHistory[i].run = tickHistory[j].run
      => tickHistory[i].seq < tickHistory[j].seq

\* C4: whenever the Tick Buffer is non-empty, 0 <= cursor <= length-1; a seek
\* outside that range leaves the cursor clamped inside it.
C4_CursorInRange ==
  Len(tickHistory) > 0 => cursor >= 0 /\ cursor <= Len(tickHistory) - 1

\* C4 witness: a seek whose input lay outside the range has been handled.
C4_Witness ==
  /\ lastEvent = "seekClamped"
  /\ Len(tickHistory) > 1
  /\ cursor \in {0, Len(tickHistory) - 1}

\* C5: whenever the mode is live and the buffer is non-empty, the cursor is
\* length-1 and the active tick is the newest tick of the buffer; an append
\* in live mode moves both to the appended tick.
C5_LiveFollowsTail ==
  /\ [](mode = "live" /\ Len(tickHistory) > 0
          => cursor = Len(tickHistory) - 1
             /\ activeTick = tickHistory[Len(tickHistory)])
  /\ [][lastEvent' = "tick" /\ mode = "live"
          => /\ cursor' = Len(tickHistory') - 1
             /\ activeTick' = putLog'[Len(putLog')]]_vars

\* C5 witness: a tick has just been appended in live mode to a buffer that
\* already held ticks.
C5_Witness ==
  /\ lastEvent = "tick"
  /\ mode = "live"
  /\ Len(tickHistory) > 1
  /\ activeTick = putLog[Len(putLog)]

\* C6 as stated: a switch from replay to live always gives cursor = length-1.
C6_SwitchToLiveSnaps ==
  [][mode = "replay" /\ mode' = "live" => cursor' = Len(tickHistory') - 1]_vars

\* C6 amended: a switch from replay to live gives cursor = length-1 when the
\* buffer is non-empty, whatever the cursor was, and leaves the cursor at 0
\* when the buffer is empty.
C6_SwitchToLiveSnapsNonEmpty ==
  [][mode = "replay" /\ mode' = "live"
       => /\ lastEvent' = "toLive" => tickHistory' = tickHistory
          /\ IF Len(tickHistory') > 0 THEN cursor' = Len(tickHistory') - 1
             ELSE cursor' = 0]_vars

\* C6 witness: the operator has just switched from replay to live on a
\* buffer with more than one tick.
C6_Witness ==
  /\ lastEvent = "toLive"
  /\ mode = "live"
  /\ Len(tickHistory) > 1
  /\ cursor = Len(tickHistory) - 1

\* C7: a switch from live to replay leaves the cursor where it was.
C7_SwitchToReplayKeepsCursor ==
  [][lastEvent' = "toReplay"
       => /\ mode = "live" /\ mode' = "replay"
          /\ cursor' = cursor
          /\ tickHistory' = tickHistory]_vars

\* C7 witness: replay has just been entered from live on a buffer with more
\* than one tick; the cursor is still on the last index.
C7_Witness ==
  /\ lastEvent = "toReplay"
  /\ mode = "replay"
  /\ Len(tickHistory) > 1
  /\ cursor = Len(tickHistory) - 1

\* C8: in replay mode a tick arrival appends to the buffer and leaves the
\* cursor unchanged.
C8_ReplayTickKeepsCursor ==
  [][lastEvent' = "tick" /\ mode = "replay"
       => /\ cursor' = cursor
          /\ mode' = "replay"
          /\ Len(putLog') = Len(putLog) + 1
          /\ tickHistory'[Len(tickHistory')] = putLog'[Len(putLog')]]_vars

\* C8 witness: a tick has arrived in replay mode while the cursor stays on an
\* earlier index.
C8_Witness ==
  /\ lastEvent = "tick"
  /\ mode = "replay"
  /\ cursor < Len(tickHistory) - 1

\* C9: in replay mode no tick arrival changes which tick is displayed.
C9_ReplayTickKeepsActiveTick ==
  [][lastEvent' = "tick" /\ mode = "replay" /\ activeTick # NoTick
       => activeTick' = activeTick]_vars

\* C10: a seek happens only in replay mode with more than one tick buffered,
\* and sets the cursor to an index in [0, length-1], changing nothing else of
\* the playback state.
C10_SeekOnlyInReplay ==
  [][lastEvent' \in {"seek", "seekClamped"}
       => /\ mode = "replay" /\ mode' = "replay"
          /\ Len(tickHistory) > 1
          /\ tickHistory' = tickHistory
          /\ cursor' >= 0 /\ cursor' <= Len(tickHistory) - 1]_vars

\* C10 witness: a seek has moved the cursor off the last index.
C10_Witness ==
  /\ lastEvent = "seek"
  /\ mode = "replay"
  /\ cursor < Len(tickHistory) - 1

\* the stage the client last learned for run r: the stage cell of the active
\* run, the run list for any other run
LastKnownStage(r) == IF r = activeRunIdRef THEN runStageRef ELSE runs[r]

\* C11: while the last known stage of a run is COMPLETED, FAILED or CANCELLED
\* no step schedules a reconnect timer for that run and no fired timer opens
\* a socket for it.
C11_NoReconnectWhenTerminal ==
  [][\A r \in Runs :
       IsTerminal(LastKnownStage(r))
         => /\ \A t \in timers' \ timers : t.run # r
            /\ ~(lastEvent' = "timer" /\ sockets'[Len(sockets')].run = r)]_vars

\* C13: whenever a socket is opened, the last known stage of its run is
\* not-yet-observed, WARMING_UP or RUNNING.
C13_OpenOnlyWhenLive ==
  [][Len(sockets') > Len(sockets)
       => runStageRef' \in {Null} \cup LiveStages]_vars

\* C12: a socket is only ever opened for the run that is active: a fired
\* reconnect timer opens a socket for the run that was active before it fired,
\* so after a switch from A to B no socket is opened for A, whatever timer of
\* A was pending at the switch.
C12_NoSocketForPreviousRun ==
  [][Len(sockets') > Len(sockets)
       => /\ sockets'[Len(sockets')].run = activeRun'.id
          /\ lastEvent' = "timer" => sockets'[Len(sockets')].run = activeRun.id]_vars

\* C12 witness: the selection of B has just cancelled a pending reconnect
\* timer of A (no socket of B existed before this selection).
C12_Witness ==
  /\ lastEvent = "selectCancel"
  /\ activeRun.id = "B"
  /\ \E s \in 1 .. Len(sockets) : sockets[s].run = "A"
  /\ \A s \in 1 .. Len(sockets) - 1 : sockets[s].run = "A"

\* C14: a reconnect timer scheduled by the failure of the connection with
\* attempt number n waits min(n+1, 5) seconds: 1, 2, 3, 4, 5 seconds for the
\* attempts 0 .. 4.
C14_BackoffDelay ==
  \A t \in timers :
    /\ t.delay = Min(t.attempt + 1, 5) * 1000
    /\ t.delay \in {1000, 2000, 3000, 4000, 5000}
    /\ t.sock \in 1 .. Len(sockets)

\* C14 witness: the failure of attempt 4 has scheduled the 5 second timer.
C14_Witness ==
  \E t \in timers : t.attempt = 4 /\ t.delay = 5000

\* C15 as stated: after five failed attempts (the attempts 0 .. 4) no further
\* reconnect timer is scheduled.
C15_StopsAfterFiveFailures ==
  \A t \in timers : t.attempt < 4

\* C15 amended: reconnection of one attached stream is bounded by the attempt
\* number 5 (the sixth connection, the fifth reconnect): no timer is scheduled
\* by the failure of attempt 5, no socket has a larger attempt number, and
\* when attempt 5 fails while the run is active and not finished, no timer is
\* left pending, the lost-connection notice is raised and refreshRuns is
\* called.
C15_ReconnectBounded ==
  /\ [](\A t \in timers : t.attempt <= 4)
  /\ [](\A s \in 1 .. Len(sockets) : sockets[s].attempt <= 5)
  /\ [][\A s \in 1 .. Len(sockets) :
         /\ sockets[s].attempt = 5
         /\ sockets[s].st \in {"erroring", "closingUnclean"}
         /\ sockets'[s].st # sockets[s].st
         /\ ShouldReconnect(sockets[s].run, activeRunIdRef, runStageRef)
         => /\ timers' = {}
            /\ Len(sockets') = Len(sockets)
            /\ mounted => toast' = ToastLost
            /\ refreshing' > 0]_vars

\* C15 witness: attempt 5 has failed, the notice is up and no timer is left.
C15_Witness ==
  /\ toast = ToastLost
  /\ timers = {}
  /\ \E s \in 1 .. Len(sockets) :
       sockets[s].attempt = 5 /\ sockets[s].st = "closingUnclean"

\* C16: the reconnecting notice is raised only by the error callback of the
\* connection with attempt number 0; the error callback of a retry leaves the
\* notice as it is.
C16_InterruptedNoticeOnce ==
  [][/\ toast' = ToastInterrupted /\ toast # ToastInterrupted
        => \E s \in 1 .. Len(sockets) :
             /\ sockets[s].attempt = 0
             /\ sockets[s].st = "erroring"
             /\ sockets'[s].st = "closingUnclean"
     /\ \A s \in 1 .. Len(sockets) :
          sockets[s].attempt > 0 /\ sockets[s].st = "erroring"
          /\ sockets'[s].st = "closingUnclean" /\ sockets[s].attempt < 5
            => toast' = toast]_vars

\* C16 witness: the error of a retry has been handled while no notice was
\* displayed, and none is displayed now.
C16_Witness ==
  /\ toast = NoToast
  /\ \E s \in 1 .. Len(sockets) :
       sockets[s].attempt > 0 /\ sockets[s].st = "closingUnclean"

\* C17: after the view was left no reconnect timer is pending.
C17_NoTimerAfterUnmount == ~mounted => timers = {}

\* the tick that completed the active run is the newest tick of the buffer
CompletionApplied ==
  /\ Len(tickHistory) > 0
  /\ tickHistory[Len(tickHistory)].seq > 0
  /\ tickHistory[Len(tickHistory)].stage = "COMPLETED"
  /\ runStageRef = "COMPLETED"

\* C18: the tick that completes the active run triggers refreshRuns, and
\* while that tick is the newest of the buffer no later step triggers it
\* again and no reconnect timer is scheduled.
C18_OneRefreshOnCompletion ==
  [][/\ ~CompletionApplied /\ CompletionApplied' => refreshing' > 0
     /\ CompletionApplied /\ CompletionApplied'
          => refreshing' <= refreshing /\ timers' = {}]_vars

\* C19: a message that is no tick changes nothing of the playback state and
\* leaves its socket open.
C19_MalformedDiscarded ==
  [][lastEvent' = "malformed"
       => /\ UNCHANGED <<tickHistory, timeline, cursor, runs, activeRun,
                         runStageRef, mode>>
          /\ \A s \in 1 .. Len(sockets) :
               sockets[s].st = "open" => sockets'[s].st = "open"]_vars

\* C20: the Timeline never holds more than TIMELINE_LIMIT events, and a tick
\* leaves the last min(TIMELINE_LIMIT, total) events of the previous timeline
\* followed by the tick's recent_events, in that order.
C20_TimelineIsRecentSuffix ==
  /\ [](Len(timeline) <= TIMELINE_LIMIT)
  /\ [][lastEvent' = "tick"
          => LET merged == timeline \o RecentEvents(putLog'[Len(putLog')])
             IN timeline' = LastN(merged, Min(TIMELINE_LIMIT, Len(merged)))]_vars

\* C20 witness: a tick's batch has pushed events out of a full timeline.
C20_Witness ==
  /\ lastEvent = "tick"
  /\ Len(timeline) = TIMELINE_LIMIT
  /\ batches[timeline[1].run][1] > 0
  /\ timeline[1] # Event(timeline[1].run, 1, 1)
  /\ RecentEvents(putLog[Len(putLog)]) # <<>>

\* the events handed to the RunTimeline component
recentTimeline == RecentTimelineMemo(timeline).view

\* event a was produced before event b
Older(a, b) == a.tick < b.tick \/ (a.tick = b.tick /\ a.i < b.i)

\* C21: the timeline view is the newest min(length, TIMELINE_VIEW) events of
\* the stored Timeline, most recent first, and the stored Timeline stays
\* oldest-first whenever the view has been computed.
C21_ViewIsNewestFirst ==
  /\ Len(recentTimeline) = Min(Len(timeline), TIMELINE_VIEW)
  /\ \A i \in 1 .. Len(recentTimeline) :
       recentTimeline[i] = timeline[Len(timeline) - i + 1]
  /\ \A i, j \in 1 .. Len(timeline) : i < j => Older(timeline[i], timeline[j])

\* C21 witness: a tick has brought the stored Timeline above the size of the
\* view, so the view leaves out the oldest stored event.
C21_Witness ==
  /\ lastEvent = "tick"
  /\ Len(timeline) > TIMELINE_VIEW
  /\ Len(recentTimeline) = TIMELINE_VIEW
  /\ recentTimeline[1] = timeline[Len(timeline)]
  /\ RecentEvents(putLog[Len(putLog)]) # <<>>

\* C22: the Tick Buffer and the Timeline hold ticks and events of the active
\* run only: a selection replaces both, and no later step appends a tick or
\* an event of another run's stream.
C22_OnlyActiveRunData ==
  /\ \A i \in 1 .. Len(tickHistory) : tickHistory[i].run = activeRun.id
  /\ \A i \in 1 .. Len(timeline) : timeline[i].run = activeRun.id

\* C24: at most one run-stream socket is open, and an open socket belongs to
\* the active run.
C24_OneOpenSocket ==
  /\ Cardinality({s \in 1 .. Len(sockets) : sockets[s].st = "open"}) <= 1
  /\ \A s \in 1 .. Len(sockets) :
       sockets[s].st = "open" => sockets[s].run = activeRun.id

\* C23: when the result of a run selection is applied while a later selection
\* of another run is in flight, the step changes neither the active run, the
\* Tick Buffer, the Timeline, the mode, the cursor nor the stream.
C23_StaleResultIgnored ==
  [][\A q \in DOMAIN pending :
       /\ q.resp = "ok"
       /\ lastEvent' \in {"select", "selectCancel"}
       /\ pending' = Dequeue(pending, q)
       /\ \E p \in DOMAIN pending : p.gen > q.gen /\ p.run # q.run
       => UNCHANGED <<activeRun, tickHistory, timeline, mode, cursor, sockets,
                      socketRef>>]_vars

\* the call of handleRunSelect a step has added, if any: a step adds at most
\* one, the youngest of the calls that wait for their answer
Unanswered(pend) == {p \in DOMAIN pend : p.resp = "none"}
NewCalls ==
  IF Cardinality(Unanswered(pending')) > Cardinality(Unanswered(pending))
  THEN {p \in DOMAIN pending' : p.gen = BagCardinality(pending') - 1}
  ELSE {}

\* C25: with the run list and the selected scenario of any state, the run the
\* auto-select heuristic prefers is a run of that scenario; it is RUNNING or
\* WARMING_UP when the scenario has such a run, and otherwise no run of the
\* scenario was created later; it is no run when the scenario has no runs.
\* The run the effect selects is always that preferred run.
C25_AutoSelectPrefers ==
  /\ [](LET p == Preferred(runs, selectedScenario)
            m == {r \in Runs : runs[r] # Absent /\ ScenarioOf(r) = selectedScenario}
        IN IF m = {} THEN p = NoRun
           ELSE /\ p \in m
                /\ (\E r \in m : runs[r] \in LiveStages) => runs[p] \in LiveStages
                /\ (\A r \in m : runs[r] \notin LiveStages)
                     => \A r \in m : CreatedAt(r) <= CreatedAt(p))
  /\ [][\A q \in NewCalls :
          q.by = "auto" => q.run = Preferred(runs', selectedScenario')]_vars

\* C25 witness: the effect has selected the older run A because it is live,
\* while the newer run B of the same scenario is finished.
C25_Witness ==
  /\ chosenBy = "auto"
  /\ activeRun.id = "A"
  /\ selectedScenario = ScenarioOf("A")
  /\ ScenarioOf("B") = ScenarioOf("A")
  /\ runs["A"] \in LiveStages
  /\ runs["B"] = "COMPLETED"
  /\ Preferred(runs, selectedScenario) = "A"

\* C26: once the operator has selected the active run, only another selection
\* by the operator replaces it: no selection made by the auto-select effect
\* changes the active run.
C26_OperatorChoiceKept ==
  [][chosenBy = "operator" /\ activeRun'.id # activeRun.id
       => chosenBy' = "operator"]_vars

VisibleCells == {f.key : f \in {g \in canvasFrame.fills : g.num > 0}}
\* the heatmap layer was asked for and has a positive maximum
HeatmapDrawn ==
  /\ canvasProps.layout
  /\ canvasProps.showHeatmap
  /\ canvasProps.heatmap.defined
  /\ \E k \in DOMAIN canvasProps.heatmap.counts : canvasProps.heatmap.counts[k] > 0

\* C28: for a heatmap with a positive maximum, every cell is filled with the
\* intensity count / maximum of the snapshot, a value from 0 to 1: 1 for a
\* cell with the maximum, 0.5 for a cell with half of it, and nothing shows
\* for a cell with count 0; {10, 5, 0} gives 1, 0.5 and nothing.
C28_HeatmapIntensity ==
  HeatmapDrawn
    => LET counts == canvasProps.heatmap.counts
           cells == {k \in DOMAIN counts : ValidKey(k)}
           maxCount == CHOOSE m \in {counts[k] : k \in DOMAIN counts} :
                         \A k \in DOMAIN counts : counts[k] <= m
       IN /\ {f.key : f \in canvasFrame.fills} = cells
          /\ Cardinality(canvasFrame.fills) = Cardinality(cells)
          /\ \A f \in canvasFrame.fills :
               /\ f.den > 0 /\ 0 <= f.num /\ f.num <= f.den
               /\ f.num * maxCount = counts[f.key] * f.den
               /\ counts[f.key] = maxCount => f.num = f.den
               /\ 2 * counts[f.key] = maxCount => 2 * f.num = f.den
               /\ counts[f.key] = 0 <=> f.key \notin VisibleCells
          /\ counts = ("0:0" :> 10 @@ "1:0" :> 5 @@ "0:1" :> 0)
               => canvasFrame.fills = {[key |-> "0:0", num |-> 10, den |-> 10],
                                       [key |-> "1:0", num |-> 5, den |-> 10],
                                       [key |-> "0:1", num |-> 0, den |-> 10]}

\* C28 witness: the heatmap {10, 5, 0} has been drawn.
C28_Witness ==
  /\ HeatmapDrawn
  /\ canvasProps.heatmap.counts = ("0:0" :> 10 @@ "1:0" :> 5 @@ "0:1" :> 0)
  /\ VisibleCells = {"0:0", "1:0"}

\* C29: with a layout, the heatmap layer fills nothing and throws nothing
\* when the heatmap is undefined, empty or all zero or the flag is off, and
\* every other layer is drawn.
C29_NoHeatmapNoError ==
  canvasProps.layout /\ ~HeatmapDrawn
    => /\ canvasFrame.fills = {}
       /\ ~canvasFrame.threw
       /\ canvasFrame.layers = LayersBelow \o LayersAbove
       /\ Len(canvasFrame.robots) = Len(canvasProps.robots)

\* C29 witness: a heatmap whose counts are all zero has been drawn with the
\* flag on, below two robots.
C29_Witness ==
  /\ canvasProps.layout
  /\ canvasProps.showHeatmap
  /\ canvasProps.heatmap.defined
  /\ DOMAIN canvasProps.heatmap.counts = {"0:0", "1:0"}
  /\ \A k \in DOMAIN canvasProps.heatmap.counts : canvasProps.heatmap.counts[k] = 0
  /\ Len(canvasFrame.robots) = 2
  /\ canvasFrame.fills = {}

\* C30: every robot is drawn in a color of the palette, at an index from 0 to
\* 6, and a robot that is drawn in two successive frames keeps its color,
\* whatever its place in the list and whatever the other robots are.
C30_RobotColorStable ==
  /\ [](\A i \in 1 .. Len(canvasFrame.robots) :
          /\ RobotColorIndex(canvasFrame.robots[i].id) \in 0 .. 6
          /\ canvasFrame.robots[i].color
               = ROBOT_COLORS[RobotColorIndex(canvasFrame.robots[i].id) + 1])
  /\ [][\A i \in 1 .. Len(canvasFrame.robots), j \in 1 .. Len(canvasFrame'.robots) :
          canvasFrame.robots[i].id = canvasFrame'.robots[j].id
            => canvasFrame.robots[i].color = canvasFrame'.robots[j].color]_vars

\* C30 witness: the robot whose hash is -2^31 is drawn second, after a robot
\* with a negative hash.
C30_Witness ==
  /\ Len(canvasFrame.robots) = 2
  /\ canvasFrame.robots[1].id = IdAgv007
  /\ IsNegative(hashString(IdAgv007))
  /\ canvasFrame.robots[2].id = IdGydZG
  /\ hashString(IdGydZG) = [hi |-> 32768, lo |-> 0]
  /\ canvasFrame.robots[2].color = ROBOT_COLORS[3]
  /\ canvasFrame.robots[1].color = ROBOT_COLORS[2]

\* C31: the lost-connection notice, once displayed, is never cleared: it stays
\* until another notice replaces it.
C31_LostNoticePersists ==
  [][toast = ToastLost => toast' # NoToast]_vars

\* the stream of the active run has failed in socket s, before its fifth
\* failure
StreamFailed(s) ==
  /\ s \in 1 .. Len(sockets)
  /\ sockets[s].st = "erroring"
  /\ socketRef = s
  /\ sockets[s].attempt < 4
  /\ activeRunIdRef = sockets[s].run
\* a later socket exists for the run of socket s, or the run is no longer
\* active or not live, or no socket is left to the explored environment
StreamRecovered(s) ==
  /\ s \in 1 .. Len(sockets)
  /\ \/ \E n \in s + 1 .. Len(sockets) : sockets[n].run = sockets[s].run
     \/ activeRunIdRef # sockets[s].run
     \/ runStageRef \notin {Null} \cup LiveStages
     \/ Len(sockets) >= bound.sockets

\* C32: when the stream of the active run fails, a new socket is eventually
\* opened for the run, unless the run stops being active or live.
C32_FailureRecovered ==
  \A s \in 1 .. ReconnectSockets : StreamFailed(s) ~> StreamRecovered(s)

\* the valid position nearest to i in a buffer of n ticks
Nearest(i, n) == IF i < 0 THEN 0 ELSE IF i > n - 1 THEN n - 1 ELSE i

FixedLayers(p) ==
  LayerCalls(<<"grid", "obstacles", "pickup_zones", "dropoff_zones",
               "charging_zones">>)
    \o (IF p.showHeatmap THEN LayerCalls(<<"heatmap">>) ELSE <<>>)
    \o LayerCalls(<<"reservations", "packages">>)
\* the number of drawing steps of the robots before the i-th one
StepsBefore(robots, i) ==
  (i - 1) + Cardinality({j \in 1 .. i - 1 : robots[j].path > 0})
\* the drawing steps of the frame are in the fixed order for the props p
InFixedOrder(frame, p) ==
  LET fixed == FixedLayers(p)
      n == Len(p.robots)
      at(k) == frame.calls[Len(fixed) + k]
  IN /\ Len(frame.calls) = Len(fixed) + StepsBefore(p.robots, n + 1)
     /\ SubSeq(frame.calls, 1, Len(fixed)) = fixed
     /\ \A i \in 1 .. n :
          LET k == StepsBefore(p.robots, i)
              id == p.robots[i].robot_id
          IN IF p.robots[i].path > 0
             THEN at(k + 1) = Call("path", id) /\ at(k + 2) = Call("robot", id)
             ELSE at(k + 1) = Call("robot", id)

\* C34: every render draws all layers in the fixed back-to-front order, last
\* per robot its path and then the robot, whatever was drawn before.
C34_FixedLayerOrder ==
  /\ [](canvasProps.layout => InFixedOrder(canvasFrame, canvasProps))
  /\ [][canvasProps'.layout => InFixedOrder(canvasFrame', canvasProps')]_vars
  /\ [][canvasProps' = canvasProps => canvasFrame' = canvasFrame]_vars
C34_Witness ==
  /\ canvasProps.layout
  /\ canvasProps.showHeatmap
  /\ Len(canvasProps.robots) = 2
  /\ canvasProps.robots[1].path > 0
  /\ canvasProps.robots[2].path = 0
  /\ canvasFrame.calls[6] = Call("heatmap", <<>>)
  /\ canvasFrame.calls[9] = Call("path", canvasProps.robots[1].robot_id)
  /\ canvasFrame.calls[10] = Call("robot", canvasProps.robots[1].robot_id)
  /\ canvasFrame.calls[11] = Call("robot", canvasProps.robots[2].robot_id)

\* C35: once the last known stage of the active run is terminal, it stays
\* terminal and no tick is put into the Tick Buffer while the run stays active.
C35_TerminalAbsorbing ==
  [][(/\ activeRunIdRef # NoRun
      /\ IsTerminal(LastKnownStage(activeRunIdRef))
      /\ activeRunIdRef' = activeRunIdRef)
       => /\ IsTerminal(runStageRef')
          /\ lastEvent' # "tick"]_vars

\* C36: at most one reconnect timer is pending at any time.
C36_OneTimerPending ==
  /\ Cardinality(timers) <= 1
  /\ timers \subseteq {reconnectTimerRef}
\* a timer armed by the close callback, after the timer armed by the error
\* callback of the same socket was cancelled, while a socket of the other run
\* exists
C36_Witness ==
  /\ \E t \in timers : t.by = "close" /\ t.run = "B"
  /\ \E s \in SocketIds : sockets[s].run = "A"

\* a close or error callback of socket s runs in this step
CallbackOf(s) ==
  /\ sockets[s].st \in {"erroring", "closingUnclean", "closingClean"}
  /\ Len(sockets') = Len(sockets)
  /\ sockets'[s].st # sockets[s].st

\* C37: a close or error callback of a socket that a newer socket has
\* superseded leaves the socket handle and the pending reconnect timer alone,
\* and the handle is the newest open socket.
C37_StaleCallbackHarmless ==
  [][\A s \in SocketIds :
       s < Len(sockets) /\ CallbackOf(s)
         => /\ socketRef' = socketRef
            /\ timers' = timers
            /\ sockets'[Len(sockets')].st = "open" => socketRef' = Len(sockets')]_vars

\* the failure of a selection request is handled in this step
SelectionFails ==
  /\ lastEvent' \notin {"select", "selectCancel"}
  /\ \E q \in DOMAIN pending :
       BagIn(q, pending) /\ q.resp = "err" /\ pending' = Dequeue(pending, q)

\* C38: a selection whose requests fail changes the notice and nothing else of
\* the view or the stream.
C38_FailedSelectChangesNotice ==
  [][SelectionFails
       => /\ toast' = ToastLoadFailed
          /\ UNCHANGED <<activeRun, activeRunIdRef, runStageRef, tickHistory,
                         timeline, mode, modeRef, cursor, selectedScenario, runs,
                         socketRef, sockets, reconnectTimerRef, timers>>]_vars
\* a selection has failed while run A is active with a socket and ticks
C38_Witness ==
  /\ toast = ToastLoadFailed
  /\ activeRun.id = "A"
  /\ socketRef # 0
  /\ tickHistory # <<>>
  /\ pending = EmptyBag

\* the selection requests of the auto-select effect for run r in flight
AutoInFlight(pend, r) == {p \in DOMAIN pend : p.by = "auto" /\ p.run = r}

\* C39: while a selection request of the auto-select effect is in flight for
\* a run, a tick makes the effect issue no further request for that run.
C39_OneAutoRequestInFlight ==
  [][\A r \in Runs :
       lastEvent' = "tick" /\ AutoInFlight(pending, r) # {}
         => Cardinality(AutoInFlight(pending', r))
              <= Cardinality(AutoInFlight(pending, r))]_vars

\* run A is active, was selected while QUEUED, and the service has started it
StartedAfterSelection ==
  /\ activeRun.id = "A"
  /\ activeRun.stage = "QUEUED"
  /\ srvStage["A"] \in LiveStages
\* a socket for run A exists and a tick of A is in the Tick Buffer
StreamedToBuffer ==
  /\ \E s \in SocketIds : sockets[s].run = "A"
  /\ \E i \in 1 .. Len(tickHistory) : tickHistory[i].run = "A"

\* C40: a run selected while QUEUED and started later is eventually streamed
\* into the Tick Buffer.
C40_QueuedRunStreamed == StartedAfterSelection ~> StreamedToBuffer

====
